---- MODULE Spec2Model ----
(***************************************************************************)
(* Model of src/main.py: a GraphQL API (Strawberry on FastAPI) over three  *)
(* DynamoDB tables: products, reviews, inventory.                          *)
(*                                                                         *)
(* Every resolver is an `async def` that only makes blocking boto3 calls,  *)
(* so a request's resolver runs on the event loop without interleaving     *)
(* with another request's.  getProduct and updateProduct are one action    *)
(* each; listProducts is its first scan, its pagination loop and its       *)
(* mapping, one action per backend call.                                   *)
(*                                                                         *)
(* The tables are DynamoDB tables, written by other systems as well: the   *)
(* products table starts with any items, one of which may lack the         *)
(* product_id attribute that list_products reads with item['product_id'].  *)
(* A relationship fetch (reviews, inventory) may fail with a backend       *)
(* error; the calls on the products table are answered, except that        *)
(* update_item rejects an expression DynamoDB does not accept.             *)
(*                                                                         *)
(* Optional values (Python None, a missing DynamoDB attribute, a GraphQL   *)
(* null) are sequences of length 0 or 1: None is <<>>, a value v is <<v>>. *)
(* Prices are counted in hundredths: the stored Decimal and the surfaced   *)
(* float of a two-digit decimal carry the same number.                     *)
(***************************************************************************)
EXTENDS Integers, Sequences, FiniteSets, TLC

\* ---------------------------------------------------------------- bounds
\* Largest number of items the backend puts on one scan page.
PageMax == 2
\* Largest number of reviews stored for one product.
MaxReviews == 1

\* ---------------------------------------------------------------- values
None == <<>>
Some(v) == <<v>>
Opt(S) == {None} \cup {Some(v) : v \in S}

Ids == {"p1", "p2"}
\* Order in which a scan of the products table serves the keys.
IdOrder == <<"p1", "p2">>
Names == {"n1", "n2"}
Prices == {0, 1999}
Descriptions == {"d1"}
Quantities == {0}
Locations == {"w1"}

ScalarFields == {"name", "price", "description"}
RelationFields == {"reviews", "inventory"}

\* Non-key attributes of one stored products item (src/main.py:31-35).
ProductAttrs == [name : Opt(Names), price : Opt(Prices), description : Opt(Descriptions)]
NoAttrs == [name |-> None, price |-> None, description |-> None]
\* A stored products item that carries no product_id attribute.
MalformedAttrs == [name |-> Some("n1"), price |-> Some(1999), description |-> None]

InventoryAttrs == [quantity_available : Quantities, location : Locations]

VARIABLES
    products_table,   \* product_id -> Opt(attributes): the 'products' table
    malformed_item,   \* Opt(attributes) of a products item lacking product_id
    reviews_table,    \* product_id -> number of stored reviews
    inventory_table,  \* product_id -> Opt(inventory attributes)
    pc,               \* "idle", "list_loop" (in list_products' while loop), "done"
    op,               \* the request being served, or the last one served
    response,         \* last scan response: its LastEvaluatedKey, if any
    items,            \* list_products' local `items`
    scanLog,          \* scans issued by the current listProducts: start key, page, token
    fetchLog,         \* relationship fetches issued by the current request
    result            \* the GraphQL response of the last finished request

vars == <<products_table, malformed_item, reviews_table, inventory_table,
          pc, op, response, items, scanLog, fetchLog, result>>

tables == <<products_table, malformed_item, reviews_table, inventory_table>>

\* ------------------------------------------------------- storage backend
Min(a, b) == IF a < b THEN a ELSE b

\* A products item as boto3 returns it: the key and the non-key attributes.
Item(id, a) ==
    [product_id |-> Some(id), name |-> a.name, price |-> a.price,
     description |-> a.description]

RECURSIVE KeyedItems(_, _)
KeyedItems(tbl, i) ==
    IF i > Len(IdOrder) THEN <<>>
    ELSE (IF tbl[IdOrder[i]] = None THEN <<>>
          ELSE <<Item(IdOrder[i], tbl[IdOrder[i]][1])>>) \o KeyedItems(tbl, i + 1)

\* Every item of the products table, in scan order.
TableItems(tbl, mal) ==
    KeyedItems(tbl, 1) \o
    (IF mal = None THEN <<>>
     ELSE <<[product_id |-> None, name |-> mal[1].name, price |-> mal[1].price,
             description |-> mal[1].description]>>)

\* products_table.scan(ExclusiveStartKey=start): the backend serves at most k
\* items after position `start`; it reports a LastEvaluatedKey when items are
\* left, and may report one on a full page that happens to end the table.
Scan(all, start, k, trailing) ==
    LET e == Min(start + k, Len(all))
        more == e < Len(all) \/ (trailing /\ e > start)
    IN [Items |-> SubSeq(all, start + 1, e),
        LastEvaluatedKey |-> IF more THEN Some(e) ELSE None]

\* Fields the caller supplied to update_product (`is not None`).
Supplied(ch) == {f \in ScalarFields : ch[f] # None}

\* The ExpressionAttributeNames update_product builds: "#n" and "#d" only.
AttributeNames(ch) == {f \in {"name", "description"} : ch[f] # None}

\* products_table.update_item(Key, "SET ...", ReturnValues="UPDATED_NEW").
\* DynamoDB rejects an empty SET clause and an empty ExpressionAttributeNames
\* map (ValidationException); otherwise it sets the attributes on the item,
\* creating the item when the key does not exist, and returns the attributes
\* the expression touched, as they are after the update.
UpdateItem(tbl, id, ch) ==
    IF Supplied(ch) = {} \/ AttributeNames(ch) = {}
    THEN [error |-> TRUE, table |-> tbl, Attributes |-> NoAttrs]
    ELSE LET old == IF tbl[id] = None THEN NoAttrs ELSE tbl[id][1]
             new == [f \in ScalarFields |-> IF ch[f] # None THEN ch[f] ELSE old[f]]
         IN [error |-> FALSE,
             table |-> [tbl EXCEPT ![id] = Some(new)],
             Attributes |-> [f \in ScalarFields |->
                                IF f \in Supplied(ch) THEN new[f] ELSE None]]

\* -------------------------------------------------------- entity mapping
\* Python truth value of `item.get('price')`: None and Decimal 0 are false.
Truthy(p) == p # None /\ p[1] # 0

\* `float(item.get('price')) if item.get('price') else None`
ToFloat(p) == IF Truthy(p) THEN p ELSE None

\* item['product_id'] raises KeyError on an item without the attribute.
HasKey(item) == item.product_id # None

\* Product(product_id=..., name=item.get('name'), price=..., description=...)
NewProduct(id, item) ==
    [product_id |-> id, name |-> item.name, price |-> ToFloat(item.price),
     description |-> item.description]

\* products_table.get_item(Key={'product_id': id}).get('Item')
GetItem(tbl, id) == IF tbl[id] = None THEN None ELSE Some(Item(id, tbl[id][1]))

\* What get_product returns: None for no item, else the mapped Product.
GetProductValue(tbl, id) ==
    LET item == GetItem(tbl, id)
    IN IF item = None THEN None ELSE Some(NewProduct(item[1].product_id[1], item[1]))

\* The except clauses of the three root resolvers: a ClientError becomes the
\* "DynamoDB error" HTTPException(500); every other Exception, an
\* HTTPException raised inside the try block included, becomes the
\* "Internal server error" HTTPException(500).
Handle(exc) == IF exc = "ClientError" THEN "DynamoDB500" ELSE "Internal500"

\* ---------------------------------------------------- GraphQL execution
\* Strawberry calls a field's resolver when the query's selection names the
\* field: the relationship resolvers of a Product run for the requested
\* relationship fields only.
FieldsToResolve_eager(req) == RelationFields
FieldsToResolve(req) == req \cap RelationFields

\* The backend calls the resolvers of products `ps` issue for selection `req`.
Fetches(ps, req) ==
    {<<f, ps[i].product_id>> : f \in FieldsToResolve(req), i \in 1..Len(ps)}

\* Product.reviews: reviews_table.query(product_id == self.product_id).
ResolveReviews(tbl, id, failed) ==
    IF <<"reviews", id>> \in failed THEN [st |-> "error", val |-> <<>>]
    ELSE [st |-> "value",
          val |-> [i \in 1..tbl[id] |-> [product_id |-> id, review_id |-> i]]]

ResolveInventory_default(tbl, id, failed) ==
    IF <<"inventory", id>> \in failed THEN [st |-> "error", val |-> <<>>]
    ELSE [st |-> "value",
          val |-> <<[product_id |-> id,
                     quantity_available |->
                        IF tbl[id] = None THEN 0 ELSE tbl[id][1].quantity_available,
                     location |->
                        IF tbl[id] = None THEN "" ELSE tbl[id][1].location]>>]

\* Product.inventory: inventory_table.get_item(Key={product_id}).
ResolveInventory(tbl, id, failed) ==
    IF <<"inventory", id>> \in failed THEN [st |-> "error", val |-> <<>>]
    ELSE IF tbl[id] = None THEN [st |-> "null", val |-> <<>>]
    ELSE [st |-> "value",
          val |-> <<[product_id |-> id,
                     quantity_available |-> tbl[id][1].quantity_available,
                     location |-> tbl[id][1].location]>>]

Omitted == [st |-> "omitted", val |-> <<>>]

\* Declared GraphQL nullability of the relationship fields:
\* reviews is List[Review] ([Review!]!), inventory is Optional[Inventory].
NonNull(f) == f = "reviews"

\* One Product object of the response: its scalars, the requested
\* relationship fields, the errors their resolvers raised, and whether an
\* error in a non-null field makes the whole object null.
Node(p, idx, req, failed) ==
    LET todo == FieldsToResolve(req)
        rv == IF "reviews" \in todo
              THEN ResolveReviews(reviews_table, p.product_id, failed) ELSE Omitted
        iv == IF "inventory" \in todo
              THEN ResolveInventory(inventory_table, p.product_id, failed) ELSE Omitted
        bad == {f \in todo : (IF f = "reviews" THEN rv ELSE iv).st = "error"}
    IN [view |-> [product_id |-> p.product_id, name |-> p.name, price |-> p.price,
                  description |-> p.description, reviews |-> rv, inventory |-> iv],
        errors |-> {[idx |-> idx, field |-> f, kind |-> "BackendUnavailable"] : f \in bad},
        null |-> \E f \in bad : NonNull(f)]

\* The response when the root resolver raised.
RootError(kind) ==
    [value |-> None, errors |-> {[idx |-> 0, field |-> "", kind |-> kind]}]

\* The response for a root resolver that returned one Product (get_product,
\* update_product): a null Product object makes the root field null.
OneProduct(p, req, failed) ==
    LET n == Node(p, 0, req, failed)
    IN [value |-> IF n.null THEN None ELSE Some(n.view), errors |-> n.errors]

\* The response for list_products, declared List[Product] ([Product!]!): a
\* null element of a list of non-null Product makes the list null.
ManyProducts(ps, req, failed) ==
    LET n == [i \in 1..Len(ps) |-> Node(ps[i], i, req, failed)]
    IN [value |-> IF \E i \in 1..Len(ps) : n[i].null THEN None
                  ELSE Some([i \in 1..Len(ps) |-> n[i].view]),
        errors |-> UNION {n[i].errors : i \in 1..Len(ps)}]

FetchLog(ps, req, failed) ==
    {[field |-> x[1], id |-> x[2], ok |-> x \notin failed] : x \in Fetches(ps, req)}

NoId == ""
NoResult == [value |-> None, errors |-> {}]
NoRequest == [kind |-> "none", id |-> NoId, req |-> {}, changes |-> NoAttrs]
Request(kind, id, req, ch) == [kind |-> kind, id |-> id, req |-> req, changes |-> ch]

\* Selections of relationship fields that queries and mutations send.
QuerySelections == SUBSET RelationFields
MutationSelections == {{}, {"inventory"}}

\* ---------------------------------------------------------------- state
Init ==
    /\ products_table \in [Ids -> Opt(ProductAttrs)]
    /\ malformed_item \in {None, Some(MalformedAttrs)}
    /\ reviews_table = [id \in Ids |-> IF id = IdOrder[1] THEN MaxReviews ELSE 0]
    /\ inventory_table \in [Ids -> Opt(InventoryAttrs)]
    /\ pc = "idle"
    /\ op = NoRequest
    /\ response = [LastEvaluatedKey |-> None]
    /\ items = <<>>
    /\ scanLog = <<>>
    /\ fetchLog = {}
    /\ result = NoResult

\* Query.get_product(product_id), with the selection `req` below it.
GetProduct(id, req) ==
    /\ pc = "idle"
    /\ op' = Request("getProduct", id, req, NoAttrs)
    /\ LET ps == GetProductValue(products_table, id)
       IN \E failed \in SUBSET Fetches(ps, req) :
            /\ fetchLog' = FetchLog(ps, req, failed)
            /\ result' = IF ps = None THEN NoResult
                         ELSE OneProduct(ps[1], req, failed)
    /\ pc' = "done"
    /\ UNCHANGED <<response, items, scanLog, tables>>

\* Mutation.update_product(product_id, name, price, description).
UpdateProduct(id, ch, req) ==
    /\ pc = "idle"
    /\ op' = Request("updateProduct", id, req, ch)
    /\ LET r == UpdateItem(products_table, id, ch)
           updated_item == r.Attributes
           raised == IF r.error THEN "ClientError"
                     ELSE IF updated_item = NoAttrs THEN "HTTPException404"
                     ELSE "none"
           ps == IF raised = "none" THEN <<NewProduct(id, updated_item)>> ELSE <<>>
       IN /\ products_table' = r.table
          /\ \E failed \in SUBSET Fetches(ps, req) :
               /\ fetchLog' = FetchLog(ps, req, failed)
               /\ result' = IF raised # "none" THEN RootError(Handle(raised))
                            ELSE OneProduct(ps[1], req, failed)
    /\ pc' = "done"
    /\ UNCHANGED <<response, items, scanLog, malformed_item, reviews_table,
                   inventory_table>>

ScanStep_overwrite(start, k, trailing) ==
    LET page == Scan(TableItems(products_table, malformed_item),
                     IF start = None THEN 0 ELSE start[1], k, trailing)
    IN /\ response' = [LastEvaluatedKey |-> page.LastEvaluatedKey]
       /\ items' = page.Items
       /\ scanLog' = Append(scanLog, [start |-> start, page |-> page.Items,
                                       token |-> page.LastEvaluatedKey])

\* One products_table.scan call of list_products and what it leaves in the
\* locals `response` and `items`.
ScanStep(start, k, trailing) ==
    LET page == Scan(TableItems(products_table, malformed_item),
                     IF start = None THEN 0 ELSE start[1], k, trailing)
    IN /\ response' = [LastEvaluatedKey |-> page.LastEvaluatedKey]
       /\ items' = items \o page.Items
       /\ scanLog' = Append(scanLog, [start |-> start, page |-> page.Items,
                                       token |-> page.LastEvaluatedKey])

\* Query.list_products: `response = products_table.scan()`.
ListProductsScan(req, k, trailing) ==
    /\ pc = "idle"
    /\ op' = Request("listProducts", NoId, req, NoAttrs)
    /\ ScanStep(None, k, trailing)
    /\ pc' = "list_loop"
    /\ UNCHANGED <<fetchLog, result, tables>>

\* The body of `while 'LastEvaluatedKey' in response`.
ListProductsNext(k, trailing) ==
    /\ pc = "list_loop"
    /\ response.LastEvaluatedKey # None
    /\ ScanStep(response.LastEvaluatedKey, k, trailing)
    /\ UNCHANGED <<pc, op, fetchLog, result, tables>>

\* The list comprehension that maps `items`, the return, and the execution
\* of the selection below each returned Product.
ListProductsReturn ==
    /\ pc = "list_loop"
    /\ response.LastEvaluatedKey = None
    /\ LET wellFormed == \A i \in 1..Len(items) : HasKey(items[i])
           ps == IF wellFormed
                 THEN [i \in 1..Len(items) |->
                          NewProduct(items[i].product_id[1], items[i])]
                 ELSE <<>>
       IN \E failed \in SUBSET Fetches(ps, op.req) :
            /\ fetchLog' = FetchLog(ps, op.req, failed)
            /\ result' = IF ~wellFormed THEN RootError(Handle("KeyError"))
                         ELSE ManyProducts(ps, op.req, failed)
    /\ pc' = "done"
    /\ UNCHANGED <<op, response, items, scanLog, tables>>

\* The router serialises the response and the request's state is dropped.
Respond ==
    /\ pc = "done"
    /\ pc' = "idle"
    /\ op' = NoRequest
    /\ response' = [LastEvaluatedKey |-> None]
    /\ items' = <<>>
    /\ scanLog' = <<>>
    /\ fetchLog' = {}
    /\ result' = NoResult
    /\ UNCHANGED tables

Next ==
    \/ \E id \in Ids, req \in QuerySelections : GetProduct(id, req)
    \/ \E id \in Ids, ch \in ProductAttrs, req \in MutationSelections :
          UpdateProduct(id, ch, req)
    \/ \E req \in QuerySelections, k \in 1..PageMax, trailing \in BOOLEAN :
          ListProductsScan(req, k, trailing)
    \/ \E k \in 1..PageMax, trailing \in BOOLEAN : ListProductsNext(k, trailing)
    \/ ListProductsReturn
    \/ Respond

Spec == Init /\ [][Next]_vars

\* ------------------------------------------------------------ properties
Finished(kind) == pc = "done" /\ op.kind = kind

\* The step that serves one updateProduct call.
UpdateStep == pc = "idle" /\ pc' = "done" /\ op'.kind = "updateProduct"

\* The Product objects a response carries, in response order.
Views(kind, res) ==
    IF res.value = None THEN <<>>
    ELSE IF kind = "listProducts" THEN res.value[1] ELSE <<res.value[1]>>

\* The index that errors below the i-th Product object carry.
ViewIdx(kind, i) == IF kind = "listProducts" THEN i ELSE 0

AllItems == TableItems(products_table, malformed_item)

RECURSIVE Pages(_, _)
Pages(log, n) == IF n = 0 THEN <<>> ELSE Pages(log, n - 1) \o log[n].page

\* C1: updateProduct on a product_id that is not in the products table, with
\* at least one field supplied, ends with a NotFound (404) error for the
\* caller: no Product is returned and no other error is surfaced.
C1_MissingUpdateIsNotFound ==
    [][(UpdateStep /\ products_table[op'.id] = None /\ Supplied(op'.changes) # {})
        => /\ result'.value = None
           /\ result'.errors # {}
           /\ \A e \in result'.errors : e.kind = "NotFound404"]_vars

\* C2: updateProduct on an existing product with a non-empty set S of supplied
\* fields succeeds, changes the stored product in the fields of S only, and a
\* following getProduct shows the new values for S and the old values for
\* the other fields.
C2_UpdateChangesOnlySupplied ==
    [][(UpdateStep /\ products_table[op'.id] # None /\ Supplied(op'.changes) # {})
        => LET id == op'.id
               ch == op'.changes
               before == GetProductValue(products_table, id)
               after == GetProductValue(products_table', id)
           IN /\ result'.errors = {}
              /\ result'.value # None
              /\ after # None
              /\ \A f \in Supplied(ch) : after[1][f] = ch[f]
              /\ \A f \in ScalarFields \ Supplied(ch) :
                    /\ after[1][f] = before[1][f]
                    /\ products_table'[id][1][f] = products_table[id][1][f]
              /\ \A other \in Ids \ {id} :
                    products_table'[other] = products_table[other]]_vars

\* C3: when a query requests reviews and inventory on a product P and the
\* reviews fetch fails while the inventory fetch succeeds, the response still
\* carries P with its inventory resolved and an error on P's reviews field
\* only; in a listProducts response no sibling product is removed.
C3_ReviewsFailureIsFieldScoped ==
    (pc = "done" /\ op.kind \in {"getProduct", "listProducts"}) =>
       \A id \in Ids :
          ( /\ [field |-> "reviews", id |-> id, ok |-> FALSE] \in fetchLog
            /\ [field |-> "inventory", id |-> id, ok |-> TRUE] \in fetchLog )
          => LET vs == Views(op.kind, result)
             IN /\ \E i \in 1..Len(vs) :
                     /\ vs[i].product_id = id
                     /\ vs[i].inventory = ResolveInventory(inventory_table, id, {})
                     /\ [idx |-> ViewIdx(op.kind, i), field |-> "reviews",
                         kind |-> "BackendUnavailable"] \in result.errors
                     /\ \A e \in result.errors :
                           e.idx = ViewIdx(op.kind, i) => e.field = "reviews"
                /\ op.kind = "listProducts" => Len(vs) = Len(items)

\* C4: listProducts issues one scan per page, the first without a start key
\* and each later one with the continuation token of the page before it,
\* every token being used once; the number of scans is bounded by the number
\* of stored items plus one, so the loop ends; and when the stored items are
\* well formed and the backend answers, it returns the items of all pages in
\* page order, each stored item once, the empty sequence for an empty table.
C4_ListFollowsEveryPage ==
    /\ (pc = "list_loop" \/ Finished("listProducts")) =>
          /\ Len(scanLog) >= 1
          /\ Len(scanLog) <= Len(AllItems) + 1
          /\ scanLog[1].start = None
          /\ \A i \in 2..Len(scanLog) :
                scanLog[i].start # None /\ scanLog[i].start = scanLog[i - 1].token
          /\ \A i, j \in 1..Len(scanLog) :
                i < j => scanLog[i].token # scanLog[j].token
          /\ scanLog[Len(scanLog)].token = response.LastEvaluatedKey
          /\ items = Pages(scanLog, Len(scanLog))
    /\ (Finished("listProducts") /\ malformed_item = None
        /\ \A e \in fetchLog : e.ok) =>
          /\ scanLog[Len(scanLog)].token = None
          /\ result.errors = {}
          /\ result.value # None
          /\ items = AllItems
          /\ LET vs == Views("listProducts", result)
                 served == Pages(scanLog, Len(scanLog))
             IN /\ Len(vs) = Len(served)
                /\ \A i \in 1..Len(vs) :
                      /\ Some(vs[i].product_id) = served[i].product_id
                      /\ vs[i].name = served[i].name
                      /\ vs[i].description = served[i].description
          /\ AllItems = <<>> => result.value = Some(<<>>)

\* A listProducts over two stored items served in three pages has returned.
C4_Witness ==
    /\ Finished("listProducts")
    /\ malformed_item = None
    /\ Len(scanLog) = 3
    /\ Len(items) = 2
    /\ result.value # None
    /\ Len(result.value[1]) = 2

\* C5: a reviews or inventory fetch is issued for a product instance only if
\* the query requested that field on an instance the root resolver returned;
\* a query that requests neither field issues no relationship fetch.
C5_FetchesAreDemandDriven ==
    /\ \A e \in fetchLog :
          /\ e.field \in op.req
          /\ products_table[e.id] # None
          /\ op.kind # "listProducts" => e.id = op.id
    /\ op.req \cap RelationFields = {} => fetchLog = {}

\* A getProduct that selected scalars only returned a product that has both
\* reviews and an inventory record.
C5_Witness ==
    /\ Finished("getProduct")
    /\ op.req = {}
    /\ result.value # None
    /\ reviews_table[op.id] > 0
    /\ inventory_table[op.id] # None
    /\ fetchLog = {}

\* C6: for a product without an inventory record, an inventory fetch that the
\* backend answers resolves the field to null: no error is attached to the
\* field and no Inventory record is made up.
C6_AbsentInventoryIsNull ==
    pc = "done" =>
       LET vs == Views(op.kind, result)
       IN \A i \in 1..Len(vs) :
             ( /\ inventory_table[vs[i].product_id] = None
               /\ [field |-> "inventory", id |-> vs[i].product_id, ok |-> TRUE]
                     \in fetchLog )
             => /\ vs[i].inventory = [st |-> "null", val |-> <<>>]
                /\ \A e \in result.errors :
                      ~(e.idx = ViewIdx(op.kind, i) /\ e.field = "inventory")

\* A getProduct that selected inventory returned a product without an
\* inventory record.
C6_Witness ==
    /\ Finished("getProduct")
    /\ "inventory" \in op.req
    /\ result.value # None
    /\ inventory_table[op.id] = None
    /\ [field |-> "inventory", id |-> op.id, ok |-> TRUE] \in fetchLog

\* C7: with one stored record lacking product_id among well-formed records,
\* listProducts still returns every well-formed product; the mapping failure
\* does not fail the whole response.
C7_MalformedRecordIsConfined ==
    ( /\ Finished("listProducts")
      /\ malformed_item # None
      /\ \E id \in Ids : products_table[id] # None
      /\ \A e \in fetchLog : e.ok )
    => LET vs == Views("listProducts", result)
       IN /\ result.value # None
          /\ \A id \in Ids :
                products_table[id] # None =>
                   \E i \in 1..Len(vs) : vs[i].product_id = id

\* C8: updateProduct on a product_id that is not in the products table leaves
\* the table unchanged, so the set of stored product_ids never changes and a
\* getProduct of that id keeps returning no value.
C8_UpdateNeverCreates ==
    [][(UpdateStep /\ products_table[op'.id] = None)
        => /\ products_table' = products_table
           /\ GetProductValue(products_table', op'.id) = None]_vars

\* C9: the Product a successful updateProduct returns equals, in name, price
\* and description, the Product an immediately following getProduct returns.
C9_UpdateReturnsStoredView ==
    (Finished("updateProduct") /\ result.value # None) =>
       \A f \in ScalarFields :
          result.value[1][f] = GetProductValue(products_table, op.id)[1][f]

\* C10: the price a response surfaces for a product is absent exactly when
\* the stored price is absent; a stored price of 0 is surfaced as 0.
C10_PriceAbsentIffStoredAbsent ==
    pc = "done" =>
       LET vs == Views(op.kind, result)
       IN \A i \in 1..Len(vs) :
             /\ vs[i].price = None <=> products_table[vs[i].product_id][1].price = None
             /\ vs[i].price # None => vs[i].price = products_table[vs[i].product_id][1].price
====
